---- MODULE Spec2Model ----
(***************************************************************************)
(* A model of socialchoice.Election (src/src/socialchoice/socialchoice.py).*)
(*                                                                         *)
(* An Election is built from a list of votes and then answers queries.     *)
(* Every query starts with get_matchups; get_matchup_graph consumes its    *)
(* result, get_victory_graph consumes the matchup graph, and the ranking   *)
(* methods consume one of the three.  pc is the position in that call      *)
(* chain: the value a callee has just returned is the value its callers    *)
(* continue with.                                                          *)
(*                                                                         *)
(* Candidates are opaque hashable values.  The iteration order of the      *)
(* candidate set (and so the order of equal keys after a stable sort) is   *)
(* not fixed by the program: it is a nondeterministic choice here.         *)
(* Margins are wins / total; they are kept as the pair <<wins, total>> and *)
(* compared by cross-multiplication (the counts are far below the size at  *)
(* which two different quotients round to the same float).                 *)
(***************************************************************************)
EXTENDS Integers, Sequences, FiniteSets

\* the largest vote list passed to the constructor, its size being the number
\* of its elements plus the number of candidates they name
MaxSize == 6

Cands == 1..MaxSize
Outcomes == {"win", "loss", "tie"}

\* well-formed votes: any two candidates (equal ones too) and a known label
ValidVotes == {<<a, b, o>> : a \in Cands, b \in Cands, o \in Outcomes}
\* vote-like elements the validator has to refuse: a wrong length, a wrong label
BadShapeVotes == {<<1, 2>>, <<1, 2, "win", "win">>}
BadLabelVotes == {<<1, 2, "draw">>}

(***************************************************************************)
(* The program uses candidates only through equality and hashing, so a     *)
(* vote list and the list obtained from it by renaming the candidates take *)
(* it through corresponding states.  The constructor's argument is one     *)
(* list per renaming class: a list in which the candidates are numbered in *)
(* the order of their first appearance.  The caller assembles it element   *)
(* by element before it calls the constructor.                             *)
(***************************************************************************)
Largest(S) == IF S = {} THEN 0 ELSE CHOOSE x \in S : \A y \in S : y <= x

\* the largest candidate number named in the list l: the number of candidates
Used(l) == Largest({l[n][1] : n \in 1..Len(l)} \cup {l[n][2] : n \in 1..Len(l)})

\* the votes that may follow a list naming the candidates 1..u: a candidate
\* not seen before gets the next free number
NextVotes(u) ==
  {v \in (1..(u + 1)) \X (1..(u + 2)) \X Outcomes : v[1] = u + 1 \/ v[2] <= u + 1}

VARIABLES
  input,       \* the list the caller passes to __init__ as `votes`
  pc,          \* position in the call chain
  err,         \* the exception that ended the call, or "none"
  raisedIn,    \* the method the exception was raised in, or "none"
  attrs,       \* the attributes the instance has: "_votes", "_candidates"
  votes,       \* self._votes
  candidates,  \* self._candidates
  matchups,    \* the dict get_matchups builds: ordered pair -> counts
  i,           \* number of votes get_matchups has tallied
  mg,          \* the graph get_matchup_graph returned
  vg,          \* the graph get_victory_graph returned
  edges,       \* ranking_by_ranked_pairs: the sorted edge list
  k,           \* ranking_by_ranked_pairs: number of edges processed
  g,           \* ranking_by_ranked_pairs: the graph being assembled
  ranking      \* the list a ranking method returned

vars == <<input, pc, err, raisedIn, attrs, votes, candidates, matchups, i,
          mg, vg, edges, k, g, ranking>>

(***************************************************************************)
(* Values                                                                  *)
(***************************************************************************)
EmptyGraph == [nodes |-> {}, edge |-> <<>>]
GraphEdges(G) == DOMAIN G.edge

\* a / b <= c / d and a / b < c / d for positive denominators
RatLeq(x, y) == x[1] * y[2] <= y[1] * x[2]
RatLess(x, y) == x[1] * y[2] < y[1] * x[2]

SetSum(S, f) ==
  LET RECURSIVE Go(_)
      Go(T) == IF T = {} THEN 0
               ELSE LET x == CHOOSE y \in T : TRUE IN f[x] + Go(T \ {x})
  IN Go(S)

\* the sequences listing every element of S once, keys (a function on S to
\* rationals) non-increasing: what sorted(..., reverse=True) can return
RECURSIVE SortedDesc(_, _)
SortedDesc(S, key) ==
  IF S = {} THEN {<<>>}
  ELSE LET top == {e \in S : \A f \in S : RatLeq(key[f], key[e])}
       IN UNION {{<<e>> \o s : s \in SortedDesc(S \ {e}, key)} : e \in top}

\* the same with keys non-decreasing: what sorted(...) can return
RECURSIVE SortedAsc(_, _)
SortedAsc(S, key) ==
  IF S = {} THEN {<<>>}
  ELSE LET low == {e \in S : \A f \in S : RatLeq(key[e], key[f])}
       IN UNION {{<<e>> \o s : s \in SortedAsc(S \ {e}, key)} : e \in low}

(***************************************************************************)
(* Construction                                                            *)
(***************************************************************************)
\* are_valid_votes looking at the lengths only
are_valid_votes_shape_only(vs) ==
  \A n \in 1..Len(vs) : Len(vs[n]) = 3

are_valid_votes(vs) ==
  \A n \in 1..Len(vs) : Len(vs[n]) = 3 /\ vs[n][3] \in Outcomes

get_all_candidates_from_votes(vs) ==
  {vs[n][1] : n \in 1..Len(vs)} \cup {vs[n][2] : n \in 1..Len(vs)}

Init ==
  /\ input = <<>>
  /\ pc = "new"
  /\ err = "none"
  /\ raisedIn = "none"
  /\ attrs = {}
  /\ votes = <<>>
  /\ candidates = {}
  /\ matchups = <<>>
  /\ i = 0
  /\ mg = EmptyGraph
  /\ vg = EmptyGraph
  /\ edges = <<>>
  /\ k = 0
  /\ g = EmptyGraph
  /\ ranking = <<>>

Raise(e, where) ==
  /\ pc' = "raised"
  /\ err' = e
  /\ raisedIn' = where

\* the list with one more element out of V, while the size allows it
Extend(V) ==
  /\ pc = "new"
  /\ LET room == MaxSize - Len(input) - 1
     IN /\ Used(input) <= room
        /\ \E v \in {w \in V : w[1] <= room /\ w[2] <= room} :
             input' = Append(input, v)
  /\ UNCHANGED <<pc, err, raisedIn, attrs, votes, candidates, matchups, i, mg,
                 vg, edges, k, g, ranking>>

\* the caller puts one more element, a vote or not, into the list it is going
\* to pass
AddVote ==
  Extend(NextVotes(Used(input)) \cup BadShapeVotes \cup BadLabelVotes)

\* Election.__init__
Construct ==
  /\ pc = "new"
  /\ IF are_valid_votes(input)
     THEN /\ votes' = input
          /\ candidates' = get_all_candidates_from_votes(input)
          /\ attrs' = {"_votes", "_candidates"}
          /\ pc' = "ready"
          /\ UNCHANGED <<err, raisedIn>>
     ELSE /\ Raise("AssertionError", "__init__")
          /\ UNCHANGED <<votes, candidates, attrs>>
  /\ UNCHANGED <<input, matchups, i, mg, vg, edges, k, g, ranking>>

(***************************************************************************)
(* get_matchups                                                            *)
(***************************************************************************)
Pairs(C) == {p \in C \X C : p[1] # p[2]}
ZeroCounts == [wins |-> 0, losses |-> 0, ties |-> 0]
Total(c) == c.wins + c.losses + c.ties

\* lines 96-104: an all-zero entry for every ordered pair of distinct candidates
InitMatchups(C) == [p \in Pairs(C) |-> ZeroCounts]

\* Tally with the "loss" branch updating only the voter's own entry
TallyLossNotMirrored(m, v) ==
  LET c12 == <<v[1], v[2]>>
      c21 == <<v[2], v[1]>>
      r == v[3]
  IN CASE r = "win" ->
            [m EXCEPT ![c12].wins = @ + 1, ![c21].losses = @ + 1]
       [] r = "loss" ->
            [m EXCEPT ![c12].losses = @ + 1]
       [] r = "tie" ->
            [m EXCEPT ![c12].ties = @ + 1, ![c21].ties = @ + 1]

\* lines 107-116: one vote added to the entry of its pair and to the mirror entry
Tally(m, v) ==
  LET c12 == <<v[1], v[2]>>
      c21 == <<v[2], v[1]>>
      r == v[3]
  IN CASE r = "win" ->
            [m EXCEPT ![c12].wins = @ + 1, ![c21].losses = @ + 1]
       [] r = "loss" ->
            [m EXCEPT ![c12].losses = @ + 1, ![c21].wins = @ + 1]
       [] r = "tie" ->
            [m EXCEPT ![c12].ties = @ + 1, ![c21].ties = @ + 1]

\* get_matchups, up to the vote loop
GetMatchupsInit ==
  /\ pc = "ready"
  /\ matchups' = InitMatchups(candidates)
  /\ i' = 0
  /\ pc' = "tally"
  /\ UNCHANGED <<input, err, raisedIn, attrs, votes, candidates, mg, vg,
                 edges, k, g, ranking>>

\* one iteration of `for vote in self._votes`; matchups[c][c] does not exist,
\* so the first subscript of a self-vote raises KeyError before any update
TallyVote ==
  /\ pc = "tally"
  /\ i < Len(votes)
  /\ LET v == votes[i + 1]
     IN IF <<v[1], v[2]>> \in DOMAIN matchups
        THEN /\ matchups' = Tally(matchups, v)
             /\ i' = i + 1
             /\ UNCHANGED <<pc, err, raisedIn>>
        ELSE /\ Raise("KeyError", "get_matchups")
             /\ UNCHANGED <<matchups, i>>
  /\ UNCHANGED <<input, attrs, votes, candidates, mg, vg, edges, k, g, ranking>>

\* `return matchups`
GetMatchupsReturn ==
  /\ pc = "tally"
  /\ i = Len(votes)
  /\ pc' = "matchups"
  /\ UNCHANGED <<input, err, raisedIn, attrs, votes, candidates, matchups, i,
                 mg, vg, edges, k, g, ranking>>

(***************************************************************************)
(* get_matchup_graph, get_victory_graph                                    *)
(***************************************************************************)
EdgeData(c) ==
  [wins |-> c.wins, losses |-> c.losses, ties |-> c.ties,
   margin |-> <<c.wins, Total(c)>>]

\* MatchupGraphEdges keeping only the edges with a win on them
MatchupGraphEdgesWinsOnly(m) ==
  {p \in DOMAIN m : m[p].wins # 0}

\* MatchupGraphEdges with the vote total taken as wins + ties
MatchupGraphEdgesNoLosses(m) ==
  {p \in DOMAIN m : m[p].wins + m[p].ties # 0}

\* lines 52-74: for every entry (candidate1, candidate2) of the tally, the edge
\* candidate1 -> candidate2 and the edge candidate2 -> candidate1 are each added
\* when the votes of their own ordered pair do not sum to zero
MatchupGraphEdges(m) ==
  {p \in DOMAIN m : Total(m[p]) # 0}
    \cup {<<p[2], p[1]>> : p \in {q \in DOMAIN m : Total(m[<<q[2], q[1]>>]) # 0}}

MatchupGraph(m, ids) ==
  [nodes |-> ids,
   edge |-> [e \in MatchupGraphEdges(m) |-> EdgeData(m[e])]]

GetMatchupGraph ==
  /\ pc = "matchups"
  /\ mg' = MatchupGraph(matchups, candidates)
  /\ pc' = "matchup_graph"
  /\ UNCHANGED <<input, err, raisedIn, attrs, votes, candidates, matchups, i,
                 vg, edges, k, g, ranking>>

\* EdgesToRemove with < in place of <=
EdgesToRemoveStrict(G) ==
  {e \in GraphEdges(G) :
     RatLess(G.edge[e].margin, G.edge[<<e[2], e[1]>>].margin)}

\* lines 26-34: the edges whose margin is not above the reverse edge's margin
EdgesToRemove(G) ==
  {e \in GraphEdges(G) :
     RatLeq(G.edge[e].margin, G.edge[<<e[2], e[1]>>].margin)}

RemoveEdges(G, E) ==
  [nodes |-> G.nodes, edge |-> [e \in GraphEdges(G) \ E |-> G.edge[e]]]

VictoryGraph(G) == RemoveEdges(G, EdgesToRemove(G))

\* get_edge_data(v, u) is None when the reverse edge is missing, and
\* None["margin"] raises TypeError
GetVictoryGraph ==
  /\ pc = "matchup_graph"
  /\ IF \A e \in GraphEdges(mg) : <<e[2], e[1]>> \in GraphEdges(mg)
     THEN /\ vg' = VictoryGraph(mg)
          /\ pc' = "victory_graph"
          /\ UNCHANGED <<err, raisedIn>>
     ELSE /\ Raise("TypeError", "get_victory_graph")
          /\ UNCHANGED vg
  /\ UNCHANGED <<input, attrs, votes, candidates, matchups, i, mg, edges, k,
                 g, ranking>>

(***************************************************************************)
(* The graph library (networkx), by its contract                           *)
(***************************************************************************)
AddEdge(G, e, data) ==
  [nodes |-> G.nodes \cup {e[1], e[2]},
   edge |-> [f \in GraphEdges(G) \cup {e} |-> IF f = e THEN data ELSE G.edge[f]]]

RemoveEdge(G, e) == RemoveEdges(G, {e})

InEdges(G, n) == {e \in GraphEdges(G) : e[2] = n}
OutEdges(G, n) == {e \in GraphEdges(G) : e[1] = n}

\* the nodes reachable from the nodes of S along the edges of E
RECURSIVE Reach(_, _)
Reach(E, S) ==
  LET T == S \cup {e[2] : e \in {f \in E : f[1] \in S}}
  IN IF T = S THEN S ELSE Reach(E, T)

\* find_cycle(g) returns a cycle when some node reaches itself along one or
\* more edges, and raises NetworkXNoCycle otherwise
HasCycle(G) ==
  \E e \in GraphEdges(G) : e[1] \in Reach(GraphEdges(G), {e[2]})

is_directed_acyclic_graph(G) == ~HasCycle(G)

\* topological_sort(g): which of the topological orders is returned depends on
\* the iteration order of the nodes and edges; every node is listed once, after
\* all its predecessors
RECURSIVE TopologicalSorts(_, _)
TopologicalSorts(N, E) ==
  IF N = {} THEN {<<>>}
  ELSE LET free == {n \in N : ~\E e \in E : e[2] = n /\ e[1] \in N}
       IN UNION {{<<n>> \o s : s \in TopologicalSorts(N \ {n}, E)} : n \in free}

(***************************************************************************)
(* Ranking methods                                                         *)
(***************************************************************************)
Margins(G) == [e \in GraphEdges(G) |-> G.edge[e].margin]

\* SortedEdges without reverse=True: smallest margin first
SortedEdgesAscending(G) == SortedAsc(GraphEdges(G), Margins(G))

\* lines 129-130: the edge lists edges.sort(key=margin, reverse=True) can leave
SortedEdges(G) == SortedDesc(GraphEdges(G), Margins(G))

\* lines 124-130: the empty graph on the victory graph's nodes, and the
\* victory edges sorted by margin, largest first
RankedPairsStart ==
  /\ pc = "victory_graph"
  /\ g' = [nodes |-> vg.nodes, edge |-> <<>>]
  /\ edges' \in SortedEdges(vg)
  /\ k' = 0
  /\ pc' = "rp_loop"
  /\ UNCHANGED <<input, err, raisedIn, attrs, votes, candidates, matchups, i,
                 mg, vg, ranking>>

\* Admit with the removal in the wrong branch: the edge is dropped when
\* find_cycle finds nothing
AdmitInverted(G, e, data) ==
  LET added == AddEdge(G, e, data)
  IN IF HasCycle(added) THEN added ELSE RemoveEdge(added, e)

\* Admit without the removal: every edge is kept
AdmitAlways(G, e, data) == AddEdge(G, e, data)

\* lines 132-137: the edge is added, and removed again when find_cycle finds
\* a cycle
Admit(G, e, data) ==
  LET added == AddEdge(G, e, data)
  IN IF HasCycle(added) THEN RemoveEdge(added, e) ELSE added

RankedPairsStep ==
  /\ pc = "rp_loop"
  /\ k < Len(edges)
  /\ g' = Admit(g, edges[k + 1], vg.edge[edges[k + 1]])
  /\ k' = k + 1
  /\ UNCHANGED <<input, pc, err, raisedIn, attrs, votes, candidates, matchups,
                 i, mg, vg, edges, ranking>>

\* line 140: list(networkx.topological_sort(g))
RankedPairsResult(G) == TopologicalSorts(G.nodes, GraphEdges(G))

\* lines 139-140
RankedPairsReturn ==
  /\ pc = "rp_loop"
  /\ k = Len(edges)
  /\ IF is_directed_acyclic_graph(g)
     THEN /\ ranking' \in RankedPairsResult(g)
          /\ pc' = "ranked_pairs"
          /\ UNCHANGED <<err, raisedIn>>
     ELSE /\ Raise("AssertionError", "ranking_by_ranked_pairs")
          /\ UNCHANGED ranking
  /\ UNCHANGED <<input, attrs, votes, candidates, matchups, i, mg, vg, edges,
                 k, g>>

\* CopelandScore counting wins only
CopelandScoreOutDegree(G, n) == Cardinality(OutEdges(G, n))

\* out_degree(n) - in_degree(n)
CopelandScore(G, n) == Cardinality(OutEdges(G, n)) - Cardinality(InEdges(G, n))

CopelandPairs(G) == {<<n, CopelandScore(G, n)>> : n \in G.nodes}

RankingByCopeland ==
  /\ pc = "victory_graph"
  /\ ranking' \in SortedDesc(CopelandPairs(vg),
                             [p \in CopelandPairs(vg) |-> <<p[2], 1>>])
  /\ pc' = "copeland"
  /\ UNCHANGED <<input, err, raisedIn, attrs, votes, candidates, matchups, i,
                 mg, vg, edges, k, g>>

RatMax(S) == CHOOSE m \in S : \A x \in S : RatLeq(x, m)

\* the largest margin among the edges into n
MinimaxKey(G, n) == RatMax({G.edge[e].margin : e \in InEdges(G, n)})

\* max() of an empty sequence raises ValueError
RankingByMinimax ==
  /\ pc = "matchup_graph"
  /\ IF \A n \in mg.nodes : InEdges(mg, n) # {}
     THEN /\ ranking' \in SortedAsc(mg.nodes,
                                    [n \in mg.nodes |-> MinimaxKey(mg, n)])
          /\ pc' = "minimax"
          /\ UNCHANGED <<err, raisedIn>>
     ELSE /\ Raise("ValueError", "ranking_by_minimax")
          /\ UNCHANGED ranking
  /\ UNCHANGED <<input, attrs, votes, candidates, matchups, i, mg, vg, edges,
                 k, g>>

Opponents(m, c) == {p \in DOMAIN m : p[1] = c}

\* x[0] / ((x[0] + x[1]) or float("inf")): 0 / inf is 0.0
Ratio(x0, x1) == IF x0 + x1 = 0 THEN <<0, 1>> ELSE <<x0, x0 + x1>>

WinRatio(m, c) ==
  Ratio(SetSum(Opponents(m, c), [p \in DOMAIN m |-> m[p].wins]),
        SetSum(Opponents(m, c), [p \in DOMAIN m |-> m[p].losses]))

WinTieRatio(m, c) ==
  Ratio(SetSum(Opponents(m, c), [p \in DOMAIN m |-> m[p].wins + m[p].ties]),
        SetSum(Opponents(m, c), [p \in DOMAIN m |-> m[p].losses]))

WinRatioPairs(m, C) == {<<c, WinRatio(m, c)>> : c \in C}
WinTieRatioPairs(m, C) == {<<c, WinTieRatio(m, c)>> : c \in C}

RankingByWinRatio ==
  /\ pc = "matchups"
  /\ ranking' \in SortedDesc(WinRatioPairs(matchups, candidates),
                  [p \in WinRatioPairs(matchups, candidates) |-> p[2]])
  /\ pc' = "win_ratio"
  /\ UNCHANGED <<input, err, raisedIn, attrs, votes, candidates, matchups, i,
                 mg, vg, edges, k, g>>

RankingByWinTieRatio ==
  /\ pc = "matchups"
  /\ ranking' \in SortedDesc(WinTieRatioPairs(matchups, candidates),
                  [p \in WinTieRatioPairs(matchups, candidates) |-> p[2]])
  /\ pc' = "win_tie_ratio"
  /\ UNCHANGED <<input, err, raisedIn, attrs, votes, candidates, matchups, i,
                 mg, vg, edges, k, g>>

Next ==
  \/ AddVote
  \/ Construct
  \/ GetMatchupsInit
  \/ TallyVote
  \/ GetMatchupsReturn
  \/ GetMatchupGraph
  \/ GetVictoryGraph
  \/ RankedPairsStart
  \/ RankedPairsStep
  \/ RankedPairsReturn
  \/ RankingByCopeland
  \/ RankingByMinimax
  \/ RankingByWinRatio
  \/ RankingByWinTieRatio

Spec == Init /\ [][Next]_vars

(***************************************************************************)
(* Properties                                                              *)
(***************************************************************************)
Rev(p) == <<p[2], p[1]>>

\* the positions reached once get_matchups / get_matchup_graph /
\* get_victory_graph has returned
AfterVictoryGraph == {"victory_graph", "rp_loop", "ranked_pairs", "copeland"}
AfterMatchupGraph == AfterVictoryGraph \cup {"matchup_graph", "minimax"}
AfterMatchups == AfterMatchupGraph \cup {"matchups", "win_ratio", "win_tie_ratio"}

\* counted on the vote list itself: among the first n votes, those between a
\* and b (either way round), and those of them a won
Between(n, a, b) ==
  {j \in 1..n : <<votes[j][1], votes[j][2]>> \in {<<a, b>>, <<b, a>>}}
WonBy(n, a, b) ==
  {j \in 1..n : votes[j] \in {<<a, b, "win">>, <<b, a, "loss">>}}
NumBetween(a, b) == Cardinality(Between(Len(votes), a, b))
NumWon(a, b) == Cardinality(WonBy(Len(votes), a, b))

Position(s, x) == CHOOSE j \in 1..Len(s) : s[j] = x
IsPermutationOf(s, S) ==
  /\ Len(s) = Cardinality(S)
  /\ {s[j] : j \in 1..Len(s)} = S

\* C4: whenever get_matchups has a tally (after any number of tallied votes),
\* the tally has an entry for exactly the ordered pairs of distinct candidates,
\* wins(A,B) = losses(B,A) and ties(A,B) = ties(B,A), and the total of each
\* directed entry is the number of tallied votes between its two candidates:
\* every tallied vote added exactly one to both entries of its pair.
C4_TallySymmetric ==
  (pc \in AfterMatchups \cup {"tally"} \/ raisedIn = "get_matchups") =>
    /\ DOMAIN matchups = Pairs(candidates)
    /\ \A p \in Pairs(candidates) :
         /\ matchups[p].wins = matchups[Rev(p)].losses
         /\ matchups[p].ties = matchups[Rev(p)].ties
         /\ Total(matchups[p]) = Cardinality(Between(i, p[1], p[2]))
    /\ (pc \in AfterMatchups => i = Len(votes))

\* C4 witness: a returned tally of several votes with a pair that has both a
\* win and a loss
C4_Witness ==
  /\ pc = "matchups"
  /\ i >= 3
  /\ \E p \in DOMAIN matchups : matchups[p].wins >= 1 /\ matchups[p].losses >= 1
  /\ \E p \in DOMAIN matchups : matchups[p].ties >= 1

C3_VictoryGraphStrict ==
  pc \in AfterVictoryGraph =>
    /\ vg.nodes = candidates
    /\ GraphEdges(vg) \subseteq Pairs(candidates)
    /\ \A p \in Pairs(candidates) :
         LET n == NumBetween(p[1], p[2])
             mXY == <<NumWon(p[1], p[2]), n>>
             mYX == <<NumWon(p[2], p[1]), n>>
         IN /\ p \in GraphEdges(vg) <=> (n >= 1 /\ RatLess(mYX, mXY))
            /\ ~(p \in GraphEdges(vg) /\ Rev(p) \in GraphEdges(vg))
            /\ (mXY = mYX => p \notin GraphEdges(vg) /\ Rev(p) \notin GraphEdges(vg))

\* C3 witness: a victory graph with an edge of margin below 1, and a pair
\* with votes but equal margins and so no edge
C3_Witness ==
  /\ pc = "victory_graph"
  /\ \E p \in GraphEdges(vg) : NumWon(p[1], p[2]) < NumBetween(p[1], p[2])
  /\ \E p \in Pairs(candidates) :
       /\ NumBetween(p[1], p[2]) >= 1
       /\ p \notin GraphEdges(vg)
       /\ Rev(p) \notin GraphEdges(vg)

\* a ranking of the nodes with every edge going forward exists: no directed cycle
Acyclic(N, E) ==
  \E f \in [N -> 1..Cardinality(N)] : \A e \in E : f[e[1]] < f[e[2]]

\* C1: ranking_by_ranked_pairs never fails; after every edge it processes the
\* graph of admitted edges has no directed cycle; and its output lists every
\* candidate exactly once with u before v for every admitted edge u -> v.
C1_RankedPairsTotalOrder ==
  /\ raisedIn # "ranking_by_ranked_pairs"
  /\ pc \in {"rp_loop", "ranked_pairs"} =>
       /\ g.nodes = candidates
       /\ Acyclic(g.nodes, GraphEdges(g))
  /\ pc = "ranked_pairs" =>
       /\ IsPermutationOf(ranking, candidates)
       /\ \A e \in GraphEdges(g) :
            Position(ranking, e[1]) < Position(ranking, e[2])

\* C1 witness: a ranking of three candidates returned after three victory
\* edges were processed, one of which was not admitted
C1_Witness ==
  /\ pc = "ranked_pairs"
  /\ Len(ranking) = 3
  /\ k = 3
  /\ Cardinality(GraphEdges(g)) = 2

EdgesBefore(j) == {edges[n] : n \in 1..(j - 1)}

\* C2: the edge list ranking_by_ranked_pairs works through is the victory
\* graph's edges, each once, with margins non-increasing (no edge comes before
\* one of strictly greater margin); a processed edge u -> v is absent from the
\* graph exactly when the edges admitted before it held a path from v to u;
\* so every victory edge that closed no cycle is in the final graph.
C2_DescendingMarginCycleRejection ==
  pc \in {"rp_loop", "ranked_pairs"} =>
    /\ IsPermutationOf(edges, GraphEdges(vg))
    /\ \A a, b \in 1..Len(edges) :
         a < b => ~RatLess(vg.edge[edges[a]].margin, vg.edge[edges[b]].margin)
    /\ GraphEdges(g) \subseteq EdgesBefore(k + 1)
    /\ \A j \in 1..k :
         edges[j] \notin GraphEdges(g) <=>
           edges[j][1] \in Reach(GraphEdges(g) \cap EdgesBefore(j), {edges[j][2]})
    /\ \A e \in GraphEdges(g) : g.edge[e] = vg.edge[e]
    /\ (pc = "ranked_pairs" => k = Len(edges))

\* C2 witness: three edges processed in sorted order, the first two admitted
\* and the third, which would close the cycle, not in the graph
C2_Witness ==
  /\ pc = "rp_loop"
  /\ k = 3
  /\ {edges[1], edges[2]} \subseteq GraphEdges(g)
  /\ edges[3] \notin GraphEdges(g)

\* C6: ranking_by_copeland returns one (candidate, score) pair per candidate,
\* the score being the candidate's out-degree minus in-degree in the victory
\* graph, in non-increasing score order, and the scores sum to 0.
C6_CopelandZeroSum ==
  pc = "copeland" =>
    /\ Len(ranking) = Cardinality(candidates)
    /\ {ranking[j][1] : j \in 1..Len(ranking)} = candidates
    /\ \A j \in 1..Len(ranking) :
         ranking[j][2] =
           Cardinality({e \in GraphEdges(vg) : e[1] = ranking[j][1]})
             - Cardinality({e \in GraphEdges(vg) : e[2] = ranking[j][1]})
    /\ \A a, b \in 1..Len(ranking) : a < b => ranking[a][2] >= ranking[b][2]
    /\ SetSum(1..Len(ranking), [j \in 1..Len(ranking) |-> ranking[j][2]]) = 0

\* C6 witness: a Copeland ranking of three candidates with scores 2, 0, -2 or
\* the like: a positive score first, a negative one last
C6_Witness ==
  /\ pc = "copeland"
  /\ Len(ranking) = 3
  /\ ranking[1][2] > 0
  /\ ranking[3][2] < 0

CondorcetWinner(X) ==
  /\ Cardinality(candidates) >= 2
  /\ \A Y \in candidates \ {X} : <<X, Y>> \in GraphEdges(vg)

\* C10: when some candidate X has a victory edge to every other candidate (and
\* there are at least two candidates), every edge out of X that has been
\* processed is in the graph, in whatever order equal margins were sorted, and
\* the ranking returned starts with X.
C10_CondorcetWinnerFirst ==
  \A X \in candidates :
    (pc \in {"rp_loop", "ranked_pairs"} /\ CondorcetWinner(X)) =>
      /\ \A j \in 1..k : edges[j][1] = X => edges[j] \in GraphEdges(g)
      /\ (pc = "ranked_pairs" => ranking[1] = X)

\* C10 witness: a ranking of three candidates led by one that beat both others
C10_Witness ==
  /\ pc = "ranked_pairs"
  /\ Len(ranking) = 3
  /\ CondorcetWinner(ranking[1])
  /\ k = 2

Constructed == attrs = {"_votes", "_candidates"}

\* C7: once construction has succeeded (self-votes included), no call of
\* get_matchups, get_matchup_graph, get_victory_graph, ranking_by_ranked_pairs,
\* ranking_by_copeland, ranking_by_win_ratio or ranking_by_win_tie_ratio ends
\* in an error: the only method that may raise is ranking_by_minimax.
C7_QueriesInfallible ==
  Constructed => (pc = "raised" => raisedIn = "ranking_by_minimax")

\* n is on the winning side of every vote that names it
WinsEveryMatchup(n) ==
  \A j \in 1..Len(votes) :
    n \in {votes[j][1], votes[j][2]} =>
      votes[j] \in {<<n, votes[j][2], "win">>, <<votes[j][1], n, "loss">>}

\* C8 as stated: a candidate who wins every matchup they are in has no
\* incoming edge in the matchup graph (so that ranking_by_minimax takes the
\* maximum of an empty set for it).
C8_WinnerHasNoInEdges ==
  pc \in AfterMatchupGraph =>
    \A n \in candidates : WinsEveryMatchup(n) => InEdges(mg, n) = {}

\* C8 as amended: every candidate of a matchup graph has an incoming edge; for
\* a candidate who wins every matchup they are in, there is one from each
\* opponent and all are of margin 0; ranking_by_minimax never takes the
\* maximum of an empty set: it raises nothing and returns every candidate once,
\* such a winner with the key 0.
C8_EveryCandidateHasInEdges ==
  /\ raisedIn # "ranking_by_minimax"
  /\ pc \in AfterMatchupGraph =>
       \A n \in candidates :
         /\ InEdges(mg, n) # {}
         /\ WinsEveryMatchup(n) =>
              /\ \A e \in InEdges(mg, n) : mg.edge[e].margin[1] = 0
              /\ \A m \in candidates \ {n} :
                   NumBetween(m, n) >= 1 => <<m, n>> \in GraphEdges(mg)
              /\ MinimaxKey(mg, n)[1] = 0
  /\ pc = "minimax" => IsPermutationOf(ranking, candidates)

\* C8 witness: ranking_by_minimax has returned for three candidates, one of
\* whom won every matchup they were in, two of them
C8_Witness ==
  /\ pc = "minimax"
  /\ Len(ranking) = 3
  /\ \E n \in candidates :
       /\ WinsEveryMatchup(n)
       /\ Cardinality(InEdges(mg, n)) = 2

WrongShape(v) == Len(v) # 3
WrongLabel(v) == Len(v) = 3 /\ v[3] \notin {"win", "loss", "tie"}
HasWrongShape(l) == \E n \in 1..Len(l) : WrongShape(l[n])
HasWrongLabel(l) == \E n \in 1..Len(l) : WrongLabel(l[n])

NothingStored == attrs = {} /\ votes = <<>> /\ candidates = {}
Stored ==
  /\ Constructed
  /\ votes = input
  /\ candidates = {input[n][1] : n \in 1..Len(input)}
                    \cup {input[n][2] : n \in 1..Len(input)}

====
